---- MODULE Spec2Model ----
(***************************************************************************)
(* A model of src/main.go: the byte-level B+tree node codec (BNode), the   *)
(* node query nodeLookUp, the leaf mutators leafInsert / leafUpdate, the   *)
(* split engine nodeSplit2 / nodeSplit3, the internal-node mutators        *)
(* nodeReplaceKidN / nodeInsert, the dispatcher treeInsert, and the file   *)
(* helper saveDataAtomic.                                                  *)
(*                                                                         *)
(* A []byte is a record [len, cap, bytes, panic]: bytes is the sparse map  *)
(* of the non-zero bytes of the backing array (make([]byte, n) is zero     *)
(* filled), panic records that a Go panic (an explicit panic(...) or a     *)
(* slice/index bounds failure) was raised while the buffer was being       *)
(* built.  All uint16 arithmetic of the source wraps modulo 2^16.          *)
(***************************************************************************)
EXTENDS Integers, Naturals, Sequences, FiniteSets, TLC

(* ------------------------------------------------------------------ *)
(* constants of src/main.go                                            *)
(* ------------------------------------------------------------------ *)
BNODE_NODE == 1
BNODE_LEAF == 2
HEADER == 4
BTREE_PAGE_SIZE == 4096
BTREE_MAX_KEY_SIZE == 1000
BTREE_MAX_VALUE_SIZE == 3000

U16(x) == x % 65536

Min(a, b) == IF a < b THEN a ELSE b

(* ------------------------------------------------------------------ *)
(* byte slices                                                         *)
(* ------------------------------------------------------------------ *)
\* make([]byte, n): n zero bytes
make(n) == [len |-> n, cap |-> n, bytes |-> [p \in {} |-> 0], panic |-> FALSE]

\* the state of a buffer whose builder panicked
Panicked(b) == [b EXCEPT !.panic = TRUE]

\* data[p]
Byte(b, p) == IF p \in DOMAIN b.bytes THEN b.bytes[p] ELSE 0

\* the backing array with bytes pos .. pos+k-1 overwritten: nz maps the
\* positions among them that receive a non-zero byte to that byte
Store(b, pos, k, nz) ==
    LET keep == {p \in DOMAIN b.bytes : p < pos \/ p >= pos + k}
    IN [b EXCEPT !.bytes = [p \in keep \cup DOMAIN nz |->
                              IF p \in DOMAIN nz THEN nz[p] ELSE b.bytes[p]]]

\* copy(b.data[pos:], src) for a byte string src: the slice expression panics
\* when pos > len; copy moves min(len(dst), len(src)) bytes
CopyAt(b, pos, src) ==
    IF b.panic THEN b
    ELSE IF pos > b.len THEN Panicked(b)
    ELSE LET k == Min(b.len - pos, Len(src)) IN
         Store(b, pos, k,
               [p \in {pos + j - 1 : j \in {i \in 1..k : src[i] # 0}} |-> src[p - pos + 1]])

\* copy(b.data[pos:], old.data[begin:end]): either slice expression may panic
CopyFrom(b, pos, old, begin, end) ==
    IF b.panic THEN b
    ELSE IF begin > end \/ end > old.cap \/ pos > b.len THEN Panicked(b)
    ELSE LET k == Min(b.len - pos, end - begin) IN
         Store(b, pos, k,
               [p \in {q - begin + pos : q \in {r \in DOMAIN old.bytes :
                                                  r >= begin /\ r < begin + k}}
                  |-> old.bytes[p - pos + begin]])

\* binary.LittleEndian.Uint16(b.data[pos:]) does not panic
Uint16_ok(b, pos) == pos + 2 <= b.len
Uint16(b, pos) == Byte(b, pos) + 256 * Byte(b, pos + 1)

\* binary.LittleEndian.Uint64(b.data[pos:])
Uint64_ok(b, pos) == pos + 8 <= b.len
RECURSIVE LittleEndian(_, _, _)
LittleEndian(b, pos, k) ==
    IF k = 0 THEN 0 ELSE Byte(b, pos) + 256 * LittleEndian(b, pos + 1, k - 1)
Uint64(b, pos) == LittleEndian(b, pos, 8)

\* the k little-endian bytes of v
RECURSIVE LEBytes(_, _)
LEBytes(v, k) == IF k = 0 THEN <<>> ELSE <<v % 256>> \o LEBytes(v \div 256, k - 1)

\* binary.LittleEndian.PutUint16(b.data[pos:], v)
PutUint16(b, pos, v) ==
    IF b.panic THEN b
    ELSE IF ~Uint16_ok(b, pos) THEN Panicked(b)
    ELSE CopyAt(b, pos, LEBytes(v, 2))

\* binary.LittleEndian.PutUint64(b.data[pos:], v)
PutUint64(b, pos, v) ==
    IF b.panic THEN b
    ELSE IF ~Uint64_ok(b, pos) THEN Panicked(b)
    ELSE CopyAt(b, pos, LEBytes(v, 8))

\* bytes.Compare(a, b) : -1, 0, +1 under byte-lexicographic order
RECURSIVE Compare(_, _)
Compare(a, b) ==
    IF a = <<>> /\ b = <<>> THEN 0
    ELSE IF a = <<>> THEN -1
    ELSE IF b = <<>> THEN 1
    ELSE IF Head(a) < Head(b) THEN -1
    ELSE IF Head(a) > Head(b) THEN 1
    ELSE Compare(Tail(a), Tail(b))

(* ------------------------------------------------------------------ *)
(* BNode accessors                                                     *)
(* ------------------------------------------------------------------ *)
\* every buffer of the program is make(BTREE_PAGE_SIZE) or
\* make(2*BTREE_PAGE_SIZE), so the header reads data[0:2], data[2:4] are in range
getNodeType(b) == Uint16(b, 0)
getNumberOfKeys(b) == Uint16(b, 2)

setHeaders(b, nodeType, numberOfKeys) ==
    PutUint16(PutUint16(b, 0, nodeType), 2, numberOfKeys)

getPointer_ok(b, index) ==
    /\ ~(index >= getNumberOfKeys(b))
    /\ Uint64_ok(b, U16(HEADER + 8 * index))
getPointer(b, index) == Uint64(b, U16(HEADER + 8 * index))

setPointer(b, index, value) ==
    IF b.panic THEN b
    ELSE IF index >= getNumberOfKeys(b) THEN Panicked(b)
    ELSE PutUint64(b, U16(HEADER + 8 * index), value)

offsetPosition_ok(b, index) == ~(index > getNumberOfKeys(b) \/ index < 1)
offsetPosition(b, index) == U16(HEADER + 8 * getNumberOfKeys(b) + (2 * (index - 1)))

getOffset_ok(b, index) ==
    index = 0 \/ (offsetPosition_ok(b, index) /\ Uint16_ok(b, offsetPosition(b, index)))
getOffset(b, index) == IF index = 0 THEN 0 ELSE Uint16(b, offsetPosition(b, index))

setOffset(b, index, offset) ==
    IF b.panic THEN b
    ELSE IF ~offsetPosition_ok(b, index) THEN Panicked(b)
    ELSE PutUint16(b, offsetPosition(b, index), offset)

getKeyValuePosition_ok(b, index) == getOffset_ok(b, index)
getKeyValuePosition(b, index) ==
    U16(HEADER + 8 * getNumberOfKeys(b) + (2 * getNumberOfKeys(b) - 1) + getOffset(b, index))

\* data[from:][:n] as a sequence
Slice(b, from, n) == [j \in 1..n |-> Byte(b, from + j - 1)]

getKey_ok(b, index) ==
    /\ ~(index >= getNumberOfKeys(b))
    /\ getKeyValuePosition_ok(b, index)
    /\ LET kvPos == getKeyValuePosition(b, index) IN
         /\ Uint16_ok(b, kvPos)
         /\ U16(kvPos + 4) <= b.len
         /\ Uint16(b, kvPos) <= b.cap - U16(kvPos + 4)
getKey(b, index) ==
    LET kvPos == getKeyValuePosition(b, index)
        keylen == Uint16(b, kvPos)
    IN Slice(b, U16(kvPos + 4), keylen)

getValue_ok(b, index) ==
    /\ ~(index >= getNumberOfKeys(b))
    /\ getKeyValuePosition_ok(b, index)
    /\ LET kvPos == getKeyValuePosition(b, index) IN
         /\ Uint16_ok(b, kvPos)
         /\ Uint16_ok(b, U16(kvPos + 2))
         /\ LET from == U16(kvPos + 4 + Uint16(b, kvPos)) IN
              /\ from <= b.len
              /\ Uint16(b, U16(kvPos + 2)) <= b.cap - from
getValue(b, index) ==
    LET kvPos == getKeyValuePosition(b, index)
        keylen == Uint16(b, kvPos)
        valueLen == Uint16(b, U16(kvPos + 2))
    IN Slice(b, U16(kvPos + 4 + keylen), valueLen)

nbytes_ok(b) == getKeyValuePosition_ok(b, getNumberOfKeys(b))
nbytes(b) == getKeyValuePosition(b, getNumberOfKeys(b))

(* ------------------------------------------------------------------ *)
(* nodeLookUp                                                          *)
(* ------------------------------------------------------------------ *)
\* the loop of nodeLookUp from index i on: [panic, found]
RECURSIVE lookUpLoop(_, _, _, _)
lookUpLoop(node, key, i, found) ==
    IF ~(i < getNumberOfKeys(node)) THEN [panic |-> FALSE, found |-> found]
    ELSE IF ~getKey_ok(node, i) THEN [panic |-> TRUE, found |-> found]
    ELSE LET c == Compare(getKey(node, i), key) IN
         IF c <= 0 THEN lookUpLoop(node, key, U16(i + 1), i)
         ELSE [panic |-> FALSE, found |-> found]

\* a nodeLookUp whose scan starts at index 0
nodeLookUpFromZero(node, key) == lookUpLoop(node, key, 0, 0)

nodeLookUp(node, key) == lookUpLoop(node, key, 1, 0)

(* ------------------------------------------------------------------ *)
(* bnodeAppendRange / bnodeAppendKV                                    *)
(* ------------------------------------------------------------------ *)
\* for i := 0; i < n; i++ { new.setPointer(dstNew+i, old.getPointer(srcOld+i)) }
RECURSIVE appendPointers(_, _, _, _, _, _)
appendPointers(new, old, dstNew, srcOld, i, n) ==
    IF new.panic \/ ~(i < n) THEN new
    ELSE IF ~getPointer_ok(old, U16(srcOld + i)) THEN Panicked(new)
    ELSE appendPointers(
            setPointer(new, U16(dstNew + i), getPointer(old, U16(srcOld + i))),
            old, dstNew, srcOld, i + 1, n)

\* for i := 1; i <= n; i++ { new.setOffset(dstNew+i, dstBegin+old.getOffset(srcOld+i)-srcBegin) }
RECURSIVE appendOffsets(_, _, _, _, _, _, _, _)
appendOffsets(new, old, dstNew, srcOld, dstBegin, srcBegin, i, n) ==
    IF new.panic \/ ~(i <= n) THEN new
    ELSE IF ~getOffset_ok(old, U16(srcOld + i)) THEN Panicked(new)
    ELSE appendOffsets(
            setOffset(new, U16(dstNew + i),
                      U16(dstBegin + getOffset(old, U16(srcOld + i)) - srcBegin)),
            old, dstNew, srcOld, dstBegin, srcBegin, i + 1, n)

\* copy(new.data[new.getKeyValuePosition(dstNew):], old.data[begin:end])
appendKVs(new, old, dstNew, srcOld, n) ==
    IF new.panic THEN new
    ELSE IF ~getKeyValuePosition_ok(old, srcOld)
            \/ ~getKeyValuePosition_ok(old, U16(srcOld + n))
            \/ ~getKeyValuePosition_ok(new, dstNew)
         THEN Panicked(new)
    ELSE LET begin == getKeyValuePosition(old, srcOld)
             end   == getKeyValuePosition(old, U16(srcOld + n))
         IN CopyFrom(new, getKeyValuePosition(new, dstNew), old, begin, end)

\* bnodeAppendRange after its pointer loop has produced p
appendOffsetsAndKVs(p, old, dstNew, srcOld, n) ==
    IF p.panic THEN p
    ELSE IF ~getOffset_ok(p, dstNew) \/ ~getOffset_ok(old, srcOld) THEN Panicked(p)
    ELSE appendKVs(
           appendOffsets(p, old, dstNew, srcOld,
                         getOffset(p, dstNew), getOffset(old, srcOld), 1, n),
           old, dstNew, srcOld, n)

bnodeAppendRange(new, old, dstNew, srcOld, n) ==
    IF new.panic THEN new
    ELSE IF U16(dstNew + n) > n THEN Panicked(new)
    ELSE IF U16(srcOld + n) > n THEN Panicked(new)
    ELSE IF n = 0 THEN new
    ELSE appendOffsetsAndKVs(appendPointers(new, old, dstNew, srcOld, 0, n),
                             old, dstNew, srcOld, n)

\* bnodeAppendKV after its two copies have produced v: the offset of the next key
appendNextOffset(v, key, value, index) ==
    IF v.panic THEN v
    ELSE IF ~getOffset_ok(v, index) THEN Panicked(v)
    ELSE setOffset(v, U16(index + 1),
                   U16(getOffset(v, index) + 4 + U16(Len(key) + Len(value))))

\* bnodeAppendKV after setPointer has produced p: the record at pos
appendRecord(p, pos, key, value, index) ==
    appendNextOffset(
        CopyAt(CopyAt(PutUint16(PutUint16(p, pos, U16(Len(key))),
                                U16(pos + 2), U16(Len(value))),
                      U16(pos + 4), key),
               U16(pos + 4 + U16(Len(key))), value),
        key, value, index)

\* bnodeAppendKV after setPointer has produced p
appendAfterPointer(p, key, value, index) ==
    IF p.panic THEN p
    ELSE IF ~getKeyValuePosition_ok(p, index) THEN Panicked(p)
    ELSE appendRecord(p, getKeyValuePosition(p, index), key, value, index)

bnodeAppendKV(new, pointer, key, value, index) ==
    appendAfterPointer(setPointer(new, index, pointer), key, value, index)

(* ------------------------------------------------------------------ *)
(* leafInsert / leafUpdate                                             *)
(* ------------------------------------------------------------------ *)
leafInsert(old, new, index, key, value) ==
    bnodeAppendRange(
        bnodeAppendKV(
            bnodeAppendRange(setHeaders(new, BNODE_LEAF, U16(getNumberOfKeys(old) + 1)),
                             old, 0, 0, index),
            0, key, value, index),
        old, U16(index + 1), index, U16(getNumberOfKeys(old) - index))

leafUpdate(old, new, index, key, value) ==
    bnodeAppendRange(
        bnodeAppendKV(
            bnodeAppendRange(setHeaders(new, BNODE_LEAF, getNumberOfKeys(old)),
                             old, 0, 0, index),
            0, key, value, index),
        old, U16(index + 1), U16(index + 1), U16(getNumberOfKeys(old) - (index + 1)))

(* ------------------------------------------------------------------ *)
(* nodeSplit2 / nodeSplit3                                             *)
(* ------------------------------------------------------------------ *)
\* nodeSplit2 after its first bnodeAppendRange has produced l: [left, right];
\* the right buffer is only touched when the left one was built
splitRight(l, right, old, nKeys) ==
    [left  |-> l,
     right |-> IF l.panic THEN Panicked(right)
               ELSE bnodeAppendRange(right, old, 0, U16((nKeys \div 2) + 1), nKeys)]

nodeSplit2(left, right, old) ==
    splitRight(
        bnodeAppendRange(setHeaders(left, getNodeType(old), getNumberOfKeys(old) \div 2),
                         old, 0, 0, getNumberOfKeys(old) \div 2),
        right, old, getNumberOfKeys(old))

\* b.data = b.data[:n] : panics when n exceeds the capacity
Reslice(b, n) == IF n > b.cap THEN Panicked(b) ELSE [b EXCEPT !.len = n]

\* a [3]BNode result that was never produced
NoSplit == [panic |-> TRUE, nsplit |-> 0, splited |-> <<>>]

\* nodeSplit3 when old fits a page, o being old resliced
splitOne(o) ==
    IF o.panic THEN NoSplit ELSE [panic |-> FALSE, nsplit |-> 1, splited |-> <<o>>]

\* nodeSplit3 after the second nodeSplit2 has produced t
splitThree(t, right) ==
    IF t.left.panic \/ t.right.panic \/ ~nbytes_ok(t.left) THEN NoSplit
    ELSE IF nbytes(t.left) > BTREE_PAGE_SIZE THEN NoSplit
    ELSE [panic |-> FALSE, nsplit |-> 3, splited |-> <<t.left, t.right, right>>]

\* nodeSplit3 after the first nodeSplit2 has produced s
splitTwo(s) ==
    IF s.left.panic \/ s.right.panic \/ ~nbytes_ok(s.left) THEN NoSplit
    ELSE IF nbytes(s.left) <= BTREE_PAGE_SIZE
    THEN [panic |-> FALSE, nsplit |-> 2,
          splited |-> <<Reslice(s.left, BTREE_PAGE_SIZE), s.right>>]
    ELSE splitThree(nodeSplit2(make(BTREE_PAGE_SIZE), make(BTREE_PAGE_SIZE), s.left),
                    s.right)

nodeSplit3(old) ==
    IF ~nbytes_ok(old) THEN NoSplit
    ELSE IF nbytes(old) <= BTREE_PAGE_SIZE THEN splitOne(Reslice(old, BTREE_PAGE_SIZE))
    ELSE splitTwo(nodeSplit2(make(2 * BTREE_PAGE_SIZE), make(BTREE_PAGE_SIZE), old))

(* ------------------------------------------------------------------ *)
(* the page store behind BTree.get / BTree.new / BTree.del             *)
(* ------------------------------------------------------------------ *)
\* a tree is [pages, next, log]: the allocated pages by id, the next unused id
\* and the calls made on the store, in order
EmptyTree == [pages |-> [p \in {} |-> make(0)], next |-> 1, log |-> <<>>]

\* tree.get(id): the page; a Go caller never sees a page that is not allocated
treeGet_ok(tree, id) == id \in DOMAIN tree.pages
treeGet(tree, id) == [tree EXCEPT !.log = Append(@, <<"get", id>>)]

\* tree.new(node): a fresh id now holding a copy of node
treeNew(tree, node) ==
    [pages |-> [p \in DOMAIN tree.pages \cup {tree.next} |->
                   IF p = tree.next THEN node ELSE tree.pages[p]],
     next  |-> tree.next + 1,
     log   |-> Append(tree.log, <<"new", tree.next>>)]

\* tree.del(id)
treeDel(tree, id) ==
    [pages |-> [p \in DOMAIN tree.pages \ {id} |-> tree.pages[p]],
     next  |-> tree.next,
     log   |-> Append(tree.log, <<"del", id>>)]

(* ------------------------------------------------------------------ *)
(* nodeReplaceKidN / nodeInsert / treeInsert                           *)
(* ------------------------------------------------------------------ *)
\* for i, node := range kids { bnodeAppendKV(new, tree.new(node), node.getKey(0), nil, idx+i) }
\* from kid i (1-based) on: [tree, node]
RECURSIVE appendKids(_, _, _, _, _)
appendKids(tree, new, kids, idx, i) ==
    IF new.panic \/ i > Len(kids) THEN [tree |-> tree, node |-> new]
    ELSE LET t == treeNew(tree, kids[i]) IN
         IF ~getKey_ok(kids[i], 0) THEN [tree |-> t, node |-> Panicked(new)]
         ELSE appendKids(t,
                         bnodeAppendKV(new, tree.next, getKey(kids[i], 0), <<>>,
                                       U16(idx + (i - 1))),
                         kids, idx, i + 1)

\* nodeReplaceKidN after the kids have been appended: k is [tree, node]
replaceTail(k, old, idx, inc) ==
    [tree |-> k.tree,
     node |-> bnodeAppendRange(k.node, old, U16(idx + inc), U16(idx + 1),
                               U16(getNumberOfKeys(old) - (idx + 1)))]

nodeReplaceKidN(tree, new, old, idx, kids) ==
    replaceTail(
        appendKids(tree,
                   bnodeAppendRange(
                       setHeaders(new, BNODE_NODE,
                                  U16(getNumberOfKeys(old) + U16(Len(kids)) - 1)),
                       old, 0, 0, idx),
                   kids, idx, 1),
        old, idx, U16(Len(kids)))

\* nodeInsert after nodeSplit3 has returned s
insertReplace(tree, new, node, index, s) ==
    IF s.panic THEN [tree |-> tree, node |-> Panicked(new)]
    ELSE nodeReplaceKidN(tree, new, node, index, s.splited)

\* nodeInsert after the recursive treeInsert has returned r = [tree, node]
insertSplit(new, node, index, r) ==
    IF r.node.panic THEN [tree |-> r.tree, node |-> Panicked(new)]
    ELSE insertReplace(r.tree, new, node, index, nodeSplit3(r.node))

RECURSIVE treeInsert(_, _, _, _)
\* nodeInsert after node.getPointer(index) has returned nodePointer
insertChild(tree, new, node, index, key, value, nodePointer) ==
    IF ~treeGet_ok(tree, nodePointer)
    THEN [tree |-> treeGet(tree, nodePointer), node |-> Panicked(new)]
    ELSE insertSplit(new, node, index,
                     treeInsert(treeDel(treeGet(tree, nodePointer), nodePointer),
                                tree.pages[nodePointer], key, value))

nodeInsert(tree, new, node, index, key, value) ==
    IF ~getPointer_ok(node, index) THEN [tree |-> tree, node |-> Panicked(new)]
    ELSE insertChild(tree, new, node, index, key, value, getPointer(node, index))

\* treeInsert after nodeLookUp has returned l = [panic, found]
insertAt(tree, node, key, value, new, l) ==
    IF l.panic THEN [tree |-> tree, node |-> Panicked(new)]
    ELSE IF getNodeType(node) = BNODE_LEAF
    THEN IF ~getKey_ok(node, l.found) THEN [tree |-> tree, node |-> Panicked(new)]
         ELSE IF key = getKey(node, l.found)
         THEN [tree |-> tree, node |-> leafUpdate(node, new, l.found, key, value)]
         ELSE [tree |-> tree,
               node |-> leafInsert(node, new, U16(l.found + 1), key, value)]
    ELSE IF getNodeType(node) = BNODE_NODE
    THEN nodeInsert(tree, new, node, l.found, key, value)
    ELSE [tree |-> tree, node |-> Panicked(new)]

treeInsert(tree, node, key, value) ==
    insertAt(tree, node, key, value, make(2 * BTREE_PAGE_SIZE), nodeLookUp(node, key))

(* ------------------------------------------------------------------ *)
(* bounds and input sets                                               *)
(* ------------------------------------------------------------------ *)
\* the largest key count of a node the model builds
MaxKeys == 3

\* "a", "aa", "b", "c"
Keys == {<<97>>, <<97, 97>>, <<98>>, <<99>>}

\* a value of BTREE_MAX_VALUE_SIZE bytes: "9" followed by zero bytes
BigValue == [i \in 1..BTREE_MAX_VALUE_SIZE |-> IF i = 1 THEN 57 ELSE 0]

\* the values stored in the nodes that are built
Vals == {<<49>>, BigValue}

\* the values given to an insert or an update
NewVals == {<<50>>, <<51, 51>>}

\* child page ids stored in an internal node
Ptrs == {1, 2}

(* ------------------------------------------------------------------ *)
(* state                                                               *)
(* ------------------------------------------------------------------ *)
VARIABLES
    pc,     \* "run", or "panic" once a Go panic has unwound the program
    node,   \* the BNode at hand
    nset,   \* how many of its key slots bnodeAppendKV has filled
    hist,   \* [valid, kvs]: the records leafInsert put in node, when node was
            \* grown from the empty leaf by leafInsert alone at the sorted index
    tree,   \* the BTree's page store: [pages, next, log]
    last,   \* the last operation applied: its arguments and what it returned
    fs,     \* saveDataAtomic: the files, by name
    fpc,    \* saveDataAtomic: where the call stands
    fcall   \* saveDataAtomic: the call's arguments and locals

vars == <<pc, node, nset, hist, tree, last, fs, fpc, fcall>>

fileVars == <<fs, fpc, fcall>>

NoOp ==
    [op |-> "none", old |-> make(0), idx |-> 0, key |-> <<>>, val |-> <<>>,
     kids |-> <<>>, out |-> make(0), found |-> 0, nsplit |-> 0, splited |-> <<>>,
     pages |-> <<>>]

NoHist == [valid |-> FALSE, kvs |-> <<>>]

\* all key slots of the node at hand are filled
Complete == ~node.panic /\ nset = getNumberOfKeys(node)

\* s with x put before position i (0-based)
InsertAt(s, i, x) == SubSeq(s, 1, i) \o <<x>> \o SubSeq(s, i + 1, Len(s))

\* how many records of kvs have a key below key
Rank(kvs, key) == Cardinality({i \in 1..Len(kvs) : Compare(kvs[i].key, key) < 0})

\* the program goes on unless the operation just recorded in last panicked
Unwind == pc' = IF last'.out.panic THEN "panic" ELSE "run"

(* ------------------------------------------------------------------ *)
(* building and querying one node                                      *)
(* ------------------------------------------------------------------ *)
\* a working buffer as treeInsert makes it, with its header set
NewNode(nodeType, n) ==
    /\ pc = "run"
    /\ node' = setHeaders(make(2 * BTREE_PAGE_SIZE), nodeType, n)
    /\ nset' = 0
    /\ hist' = [valid |-> nodeType = BNODE_LEAF /\ n = 0, kvs |-> <<>>]
    /\ last' = NoOp
    /\ UNCHANGED <<pc, tree, fileVars>>

\* bnodeAppendKV(node, 0, key, value, nset) on a leaf
AppendLeafKV(key, value) ==
    /\ pc = "run" /\ ~node.panic
    /\ getNodeType(node) = BNODE_LEAF
    /\ nset < getNumberOfKeys(node)
    /\ node' = bnodeAppendKV(node, 0, key, value, nset)
    /\ nset' = nset + 1
    /\ pc' = IF node'.panic THEN "panic" ELSE "run"
    /\ hist' = NoHist
    /\ last' = NoOp
    /\ UNCHANGED <<tree, fileVars>>

\* bnodeAppendKV(node, pointer, key, nil, nset) on an internal node
AppendNodeKV(pointer, key) ==
    /\ pc = "run" /\ ~node.panic
    /\ getNodeType(node) = BNODE_NODE
    /\ nset < getNumberOfKeys(node)
    /\ node' = bnodeAppendKV(node, pointer, key, <<>>, nset)
    /\ nset' = nset + 1
    /\ pc' = IF node'.panic THEN "panic" ELSE "run"
    /\ hist' = NoHist
    /\ last' = NoOp
    /\ UNCHANGED <<tree, fileVars>>

\* what LookUp records of l = [panic, found]
LookUpDone(key, l) ==
    [NoOp EXCEPT !.op = "nodeLookUp", !.old = node, !.key = key,
                 !.found = l.found, !.out = [make(0) EXCEPT !.panic = l.panic]]

\* nodeLookUp(node, key)
LookUp(key) ==
    /\ pc = "run" /\ Complete /\ last.op = "none"
    /\ last' = LookUpDone(key, nodeLookUp(node, key))
    /\ Unwind
    /\ UNCHANGED <<node, nset, hist, tree, fileVars>>

\* leafInsert(node, new, index, key, value) into a fresh working buffer
LeafInsert(index, key, value) ==
    /\ pc = "run" /\ Complete /\ last.op = "none"
    /\ getNodeType(node) = BNODE_LEAF
    /\ last' = [NoOp EXCEPT !.op = "leafInsert", !.old = node, !.idx = index,
                 !.key = key, !.val = value,
                 !.out = leafInsert(node, make(2 * BTREE_PAGE_SIZE), index, key, value)]
    /\ Unwind
    /\ node' = IF last'.out.panic THEN node ELSE last'.out
    /\ nset' = IF last'.out.panic THEN nset ELSE nset + 1
    /\ hist' = IF /\ hist.valid
                  /\ \A i \in 1..Len(hist.kvs) : hist.kvs[i].key # key
                  /\ index = Rank(hist.kvs, key)
               THEN [valid |-> TRUE,
                     kvs |-> InsertAt(hist.kvs, index, [key |-> key, val |-> value])]
               ELSE NoHist
    /\ UNCHANGED <<tree, fileVars>>

\* leafUpdate(node, new, index, key, value) into a fresh working buffer
LeafUpdate(index, key, value) ==
    /\ pc = "run" /\ Complete /\ last.op = "none"
    /\ getNodeType(node) = BNODE_LEAF
    /\ last' = [NoOp EXCEPT !.op = "leafUpdate", !.old = node, !.idx = index,
                 !.key = key, !.val = value,
                 !.out = leafUpdate(node, make(2 * BTREE_PAGE_SIZE), index, key, value)]
    /\ Unwind
    /\ node' = IF last'.out.panic THEN node ELSE last'.out
    /\ hist' = NoHist
    /\ UNCHANGED <<nset, tree, fileVars>>

\* what a treeInsert records of r = [tree, node]
TreeInsertDone(key, value, r) ==
    /\ last' = [NoOp EXCEPT !.op = "treeInsert", !.old = node, !.key = key,
                            !.val = value, !.out = r.node]
    /\ tree' = r.tree

\* treeInsert(tree, node, key, value) on a leaf
TreeInsertLeaf(key, value) ==
    /\ pc = "run" /\ Complete /\ last.op = "none"
    /\ getNodeType(node) = BNODE_LEAF
    /\ TreeInsertDone(key, value, treeInsert(tree, node, key, value))
    /\ Unwind
    /\ node' = IF last'.out.panic THEN node ELSE last'.out
    /\ nset' = IF last'.out.panic THEN nset ELSE getNumberOfKeys(last'.out)
    /\ hist' = NoHist
    /\ UNCHANGED fileVars

\* what NodeSplit3 records of s = [panic, nsplit, splited]
SplitDone(s) ==
    [NoOp EXCEPT !.op = "nodeSplit3", !.old = node,
                 !.out = [make(0) EXCEPT !.panic = s.panic],
                 !.nsplit = s.nsplit, !.splited = s.splited]

\* nodeSplit3(node)
NodeSplit3 ==
    /\ pc = "run" /\ Complete /\ last.op = "none"
    /\ last' = SplitDone(nodeSplit3(node))
    /\ Unwind
    /\ UNCHANGED <<node, nset, hist, tree, fileVars>>

\* the caller takes the result of the last operation and goes on
Return ==
    /\ pc = "run"
    /\ last.op # "none"
    /\ last' = NoOp
    /\ UNCHANGED <<pc, node, nset, hist, tree, fileVars>>

\* no call of saveDataAtomic made yet
NoFile ==
    [data |-> <<>>, tempFile |-> "", before |-> <<>>, created |-> FALSE,
     opened |-> "no", wrote |-> "no", removed |-> "no", renamed |-> "no",
     err |-> FALSE]

InitNode ==
    /\ pc = "run"
    /\ node = make(2 * BTREE_PAGE_SIZE)
    /\ nset = 0
    /\ hist = NoHist
    /\ tree = EmptyTree
    /\ last = NoOp
    /\ fs = <<>>
    /\ fpc = "idle"
    /\ fcall = NoFile

NextNode ==
    \/ \E t \in {BNODE_NODE, BNODE_LEAF}, n \in 0..MaxKeys : NewNode(t, n)
    \/ \E k \in Keys, v \in Vals : AppendLeafKV(k, v)
    \/ \E p \in Ptrs, k \in Keys : AppendNodeKV(p, k)
    \/ \E k \in Keys : LookUp(k)
    \/ \E i \in 0..MaxKeys, k \in Keys, v \in NewVals : LeafInsert(i, k, v)
    \/ \E i \in 0..MaxKeys, k \in Keys, v \in NewVals : LeafUpdate(i, k, v)
    \/ \E k \in Keys, v \in NewVals : TreeInsertLeaf(k, v)
    \/ NodeSplit3
    \/ Return

SpecNode == InitNode /\ [][NextNode]_vars

\* the nodes that can be built, and nodeLookUp on them
NextLookUp ==
    \/ \E t \in {BNODE_NODE, BNODE_LEAF}, n \in 0..MaxKeys : NewNode(t, n)
    \/ \E k \in Keys, v \in Vals : AppendLeafKV(k, v)
    \/ \E p \in Ptrs, k \in Keys : AppendNodeKV(p, k)
    \/ \E k \in Keys : LookUp(k)
    \/ Return

SpecLookUp == InitNode /\ [][NextLookUp]_vars

(* ------------------------------------------------------------------ *)
(* reading a node back                                                 *)
(* ------------------------------------------------------------------ *)
\* every key and value of b can be read without a panic
Readable(b) ==
    \A i \in 0..(getNumberOfKeys(b) - 1) : getKey_ok(b, i) /\ getValue_ok(b, i)

\* the keys of b at the indexes from on are strictly increasing in byte order
IncreasingFrom(b, from) ==
    /\ \A i \in from..(getNumberOfKeys(b) - 1) : getKey_ok(b, i)
    /\ \A i \in from..(getNumberOfKeys(b) - 2) :
          Compare(getKey(b, i), getKey(b, i + 1)) < 0

StrictlyIncreasing(b) == IncreasingFrom(b, 0)

HasKey(b, key) ==
    \E i \in 0..(getNumberOfKeys(b) - 1) : getKey_ok(b, i) /\ getKey(b, i) = key

\* the keys of b, in slot order
KeysOf(b) == [i \in 1..getNumberOfKeys(b) |-> getKey(b, i - 1)]

\* the largest element of a non-empty finite set of integers
Largest(S) == CHOOSE x \in S : \A y \in S : y <= x

(* ------------------------------------------------------------------ *)
(* C1 .. C6, C8 : the claims about one node, under SpecNode            *)
(* ------------------------------------------------------------------ *)

\* C1: a leaf grown from the empty leaf by leafInsert calls with pairwise
\* distinct keys, each at the index equal to the number of smaller keys already
\* present, is built without a panic and holds exactly the inserted records in
\* key order: getNumberOfKeys is the number of inserts, getKey(i) the i-th
\* smallest inserted key and getValue(i) the value inserted with it.
C1_LeafInsertRoundTrip ==
    (last.op = "leafInsert" /\ hist.valid) =>
        /\ ~last.out.panic
        /\ getNumberOfKeys(last.out) = Len(hist.kvs)
        /\ \A i \in 1..Len(hist.kvs) :
              /\ getKey_ok(last.out, i - 1)
              /\ getKey(last.out, i - 1) = hist.kvs[i].key
              /\ getValue_ok(last.out, i - 1)
              /\ getValue(last.out, i - 1) = hist.kvs[i].val

\* C2: treeInsert of a key that is not in a leaf with strictly increasing keys
\* (a key below the leaf's key 0 included) returns a leaf whose keys are
\* strictly increasing in byte order and that contains the new key.
C2_TreeInsertKeepsOrder ==
    ( /\ last.op = "treeInsert"
      /\ getNodeType(last.old) = BNODE_LEAF
      /\ StrictlyIncreasing(last.old)
      /\ ~HasKey(last.old, last.key) ) =>
        /\ ~last.out.panic
        /\ StrictlyIncreasing(last.out)
        /\ HasKey(last.out, last.key)

\* the answer C3 asks of nodeLookUp: the largest index in [1, keyCount) whose
\* key is <= target, and 0 when there is none
LargestAtMost(b, key) ==
    LET S == {i \in 1..(getNumberOfKeys(b) - 1) : Compare(getKey(b, i), key) <= 0}
    IN IF S = {} THEN 0 ELSE Largest(S)

\* C3: on a node whose keys are strictly increasing, nodeLookUp returns the
\* largest index i in [1, keyCount) with getKey(i) <= target in byte order, and 0
\* when there is none (key counts 0 and 1 included).  Index 0 is never compared:
\* the answer is the same whatever the key at index 0, so only the keys from
\* index 1 on are required to increase.
C3_LookUpLargestAtMost ==
    (last.op = "nodeLookUp" /\ IncreasingFrom(last.old, 1)) =>
        /\ ~last.out.panic
        /\ last.found = LargestAtMost(last.old, last.key)

\* C3's case: a three-key node with strictly increasing keys where the lookup
\* stops at index 1, the keys after it being larger than the target
C3_Witness ==
    /\ last.op = "nodeLookUp"
    /\ getNumberOfKeys(last.old) = 3
    /\ StrictlyIncreasing(last.old)
    /\ Compare(getKey(last.old, 1), last.key) = 0
    /\ last.found = 1

\* C4: leafUpdate at an index of a leaf with n >= 1 keys completes and yields a
\* leaf with n keys whose value at the index is the new value and whose other
\* keys and values are those of old.
C4_LeafUpdateIsolation ==
    ( /\ last.op = "leafUpdate"
      /\ getNumberOfKeys(last.old) >= 1
      /\ last.idx < getNumberOfKeys(last.old)
      /\ Readable(last.old) ) =>
        /\ ~last.out.panic
        /\ getNumberOfKeys(last.out) = getNumberOfKeys(last.old)
        /\ Readable(last.out)
        /\ getValue(last.out, last.idx) = last.val
        /\ \A j \in 0..(getNumberOfKeys(last.old) - 1) :
              j # last.idx =>
                 /\ getKey(last.out, j) = getKey(last.old, j)
                 /\ getValue(last.out, j) = getValue(last.old, j)

\* the keys of the fragments s[1], s[2], ... one after the other
RECURSIVE FragmentKeys(_)
FragmentKeys(s) == IF s = <<>> THEN <<>> ELSE KeysOf(Head(s)) \o FragmentKeys(Tail(s))

\* C5: nodeSplit3 of a node larger than a page returns 2 or 3 fragments whose
\* keys, taken in fragment order, are exactly the keys of the node in order: the
\* key counts add up, no key is lost and none is duplicated.
C5_SplitConservesKeys ==
    ( /\ last.op = "nodeSplit3"
      /\ nbytes_ok(last.old)
      /\ nbytes(last.old) > BTREE_PAGE_SIZE
      /\ \A i \in 0..(getNumberOfKeys(last.old) - 1) : getKey_ok(last.old, i) ) =>
        /\ ~last.out.panic
        /\ last.nsplit \in {2, 3}
        /\ Len(last.splited) = last.nsplit
        /\ \A f \in 1..Len(last.splited) :
              \A i \in 0..(getNumberOfKeys(last.splited[f]) - 1) :
                 getKey_ok(last.splited[f], i)
        /\ FragmentKeys(last.splited) = KeysOf(last.old)

\* C6: nodeSplit3 of a node of at most two pages whose keys and values respect
\* BTREE_MAX_KEY_SIZE and BTREE_MAX_VALUE_SIZE returns fragments that each fit
\* a page: the left one, the middle one and the right one.
C6_SplitFragmentsFit ==
    ( /\ last.op = "nodeSplit3"
      /\ nbytes_ok(last.old)
      /\ nbytes(last.old) <= 2 * BTREE_PAGE_SIZE
      /\ Readable(last.old)
      /\ \A i \in 0..(getNumberOfKeys(last.old) - 1) :
            /\ Len(getKey(last.old, i)) <= BTREE_MAX_KEY_SIZE
            /\ Len(getValue(last.old, i)) <= BTREE_MAX_VALUE_SIZE ) =>
        /\ ~last.out.panic
        /\ \A f \in 1..Len(last.splited) :
              nbytes_ok(last.splited[f]) /\ nbytes(last.splited[f]) <= BTREE_PAGE_SIZE

\* C8: in a node with n keys, for every i in [0, n], getKeyValuePosition(i) is
\* HEADER + 8n + 2n + getOffset(i) without wrap-around, so that the records start
\* after the offset array; nbytes() is getKeyValuePosition(n), and 4 when n = 0.
C8_KeyValuePosition ==
    (Complete /\ getNodeType(node) \in {BNODE_NODE, BNODE_LEAF}) =>
        /\ \A i \in 0..getNumberOfKeys(node) :
              getKeyValuePosition_ok(node, i) =>
                 getKeyValuePosition(node, i) =
                    HEADER + 8 * getNumberOfKeys(node) + 2 * getNumberOfKeys(node)
                      + getOffset(node, i)
        /\ nbytes(node) = getKeyValuePosition(node, getNumberOfKeys(node))
        /\ (getNumberOfKeys(node) = 0 => nbytes(node) = 4)

(* ------------------------------------------------------------------ *)
(* a tree in the page store                                            *)
(* ------------------------------------------------------------------ *)
\* setHeaders, then bnodeAppendKV of recs[i], recs[i+1], ... at slots i-1, i, ...
RECURSIVE appendAll(_, _, _)
appendAll(b, recs, i) ==
    IF i > Len(recs) THEN b
    ELSE appendAll(bnodeAppendKV(b, recs[i].ptr, recs[i].key, recs[i].val, i - 1),
                   recs, i + 1)

\* a page-sized node holding recs
MkNode(nodeType, recs) ==
    appendAll(setHeaders(make(BTREE_PAGE_SIZE), nodeType, Len(recs)), recs, 1)

\* a leaf with the given keys, each with the value "1"
LeafOf(keys) ==
    MkNode(BNODE_LEAF, [i \in 1..Len(keys) |-> [ptr |-> 0, key |-> keys[i], val |-> <<49>>]])

\* an internal node over the pages ids, keyed as nodeReplaceKidN keys a kid: by
\* the kid's getKey(0), with an empty value
InternalOf(pages, ids) ==
    MkNode(BNODE_NODE,
           [i \in 1..Len(ids) |->
               [ptr |-> ids[i], key |-> getKey(pages[ids[i]], 0), val |-> <<>>]])

\* a store holding nodes[i] as page i, no call made on it yet
StoreOf(nodes) ==
    [pages |-> [i \in 1..Len(nodes) |-> nodes[i]], next |-> Len(nodes) + 1, log |-> <<>>]

\* the key sequences of the left and of the right leaf of the trees
LeftKeys == {<<<<97>>>>, <<<<97>>, <<97, 97>>>>}
RightKeys == {<<<<98>>>>, <<<<98>>, <<99>>>>}

\* the fragments handed to nodeReplaceKidN: 1 to 3 one-key leaves
KidLeaves == {LeafOf(<<<<97, 97>>>>), LeafOf(<<<<98>>>>)}
KidSeqs == UNION {[1..m -> KidLeaves] : m \in 1..3}

\* the root over two leaves, over one leaf, or over an internal node over two leaves
TreeShapes == {"two leaves", "one leaf", "three levels"}

TreeOf(shape, a, b) ==
    IF shape = "three levels"
    THEN StoreOf(<<LeafOf(a), LeafOf(b),
                   InternalOf(StoreOf(<<LeafOf(a), LeafOf(b)>>).pages, <<1, 2>>)>>)
    ELSE StoreOf(<<LeafOf(a), LeafOf(b)>>)

RootOf(shape, t) ==
    IF shape = "three levels" THEN InternalOf(t.pages, <<3>>)
    ELSE IF shape = "one leaf" THEN InternalOf(t.pages, <<2>>)
    ELSE InternalOf(t.pages, <<1, 2>>)

InitTree ==
    /\ pc = "run"
    /\ \E shape \in TreeShapes, a \in LeftKeys, b \in RightKeys :
          /\ tree = TreeOf(shape, a, b)
          /\ node = RootOf(shape, tree)
    /\ nset = getNumberOfKeys(node)
    /\ hist = NoHist
    /\ last = NoOp
    /\ fs = <<>>
    /\ fpc = "idle"
    /\ fcall = NoFile

\* treeInsert(tree, node, key, value) on the root, an internal node
TreeInsertRoot(key, value) ==
    /\ pc = "run" /\ Complete /\ last.op = "none"
    /\ getNodeType(node) = BNODE_NODE
    /\ last' = [NoOp EXCEPT !.op = "treeInsert", !.old = node, !.key = key,
                            !.val = value, !.pages = tree.pages,
                            !.out = treeInsert(tree, node, key, value).node]
    /\ tree' = treeInsert(tree, node, key, value).tree
    /\ Unwind
    /\ UNCHANGED <<node, nset, hist, fileVars>>

\* nodeReplaceKidN(tree, new, node, idx, kids...) into a fresh working buffer
ReplaceKidN(idx, kids) ==
    /\ pc = "run" /\ Complete /\ last.op = "none"
    /\ getNodeType(node) = BNODE_NODE
    /\ idx < getNumberOfKeys(node)
    /\ last' = [NoOp EXCEPT !.op = "nodeReplaceKidN", !.old = node, !.idx = idx,
                            !.kids = kids, !.pages = tree.pages,
                            !.out = nodeReplaceKidN(tree, make(2 * BTREE_PAGE_SIZE),
                                                    node, idx, kids).node]
    /\ tree' = nodeReplaceKidN(tree, make(2 * BTREE_PAGE_SIZE), node, idx, kids).tree
    /\ Unwind
    /\ UNCHANGED <<node, nset, hist, fileVars>>

NextTree ==
    \/ \E k \in Keys, v \in NewVals : TreeInsertRoot(k, v)
    \/ \E i \in 0..(MaxKeys - 1), kids \in KidSeqs : ReplaceKidN(i, kids)

SpecTree == InitTree /\ [][NextTree]_vars

(* ------------------------------------------------------------------ *)
(* C7, C9 : the claims about the page store, under SpecTree            *)
(* ------------------------------------------------------------------ *)

\* C7: nodeReplaceKidN of slot idx of an internal node with n keys by m kids,
\* 1 <= m <= 3, completes with a node of n+m-1 keys; it calls tree.new exactly m
\* times, once per kid in kid order, and slots idx..idx+m-1 hold the ids those
\* calls returned, each with its kid's getKey(0) and an empty value; the slots
\* before idx are those of old, the slots after idx those of old shifted by m-1.
C7_ReplaceKidN ==
    (last.op = "nodeReplaceKidN") =>
      LET n == getNumberOfKeys(last.old)
          m == Len(last.kids)
      IN /\ ~last.out.panic
         /\ getNumberOfKeys(last.out) = n + m - 1
         /\ Readable(last.out)
         /\ Len(tree.log) = m
         /\ \A j \in 1..m :
               /\ tree.log[j][1] = "new"
               /\ tree.pages[tree.log[j][2]] = last.kids[j]
               /\ getPointer(last.out, last.idx + j - 1) = tree.log[j][2]
               /\ getKey(last.out, last.idx + j - 1) = getKey(last.kids[j], 0)
               /\ getValue(last.out, last.idx + j - 1) = <<>>
         /\ \A i \in 0..(last.idx - 1) :
               /\ getPointer(last.out, i) = getPointer(last.old, i)
               /\ getKey(last.out, i) = getKey(last.old, i)
               /\ getValue(last.out, i) = getValue(last.old, i)
         /\ \A i \in (last.idx + 1)..(n - 1) :
               /\ getPointer(last.out, i + m - 1) = getPointer(last.old, i)
               /\ getKey(last.out, i + m - 1) = getKey(last.old, i)
               /\ getValue(last.out, i + m - 1) = getValue(last.old, i)

\* the calls of one treeInsert: for g internal nodes on the path, g pairs
\* get(child), del(child) on the way down, then between g and 3g new calls
CallsInOrder(log) ==
    \E g \in 1..Len(log) :
       /\ 2 * g <= Len(log)
       /\ \A i \in 1..g :
             /\ log[2 * i - 1][1] = "get"
             /\ log[2 * i][1] = "del"
             /\ log[2 * i][2] = log[2 * i - 1][2]
       /\ \A j \in (2 * g + 1)..Len(log) : log[j][1] = "new"
       /\ Len(log) - 2 * g >= g
       /\ Len(log) - 2 * g <= 3 * g

\* no get or del of an id after its del
NoUseAfterDel(log) ==
    \A i \in 1..Len(log) :
       log[i][1] = "del" =>
          \A j \in (i + 1)..Len(log) :
             ~(log[j][1] \in {"get", "del"} /\ log[j][2] = log[i][2])

\* C9: during one treeInsert on a tree, the store calls made for each internal
\* node of the path are get(child), del(child), and, once the insert into the
\* child has returned, 1 to 3 new(fragment); no id is read or freed after its
\* del, and no page of the store is modified in place.
C9_PageStoreCallOrder ==
    (last.op = "treeInsert" /\ getNodeType(last.old) = BNODE_NODE) =>
        /\ CallsInOrder(tree.log)
        /\ NoUseAfterDel(tree.log)
        /\ \A id \in DOMAIN last.pages \cap DOMAIN tree.pages :
              tree.pages[id] = last.pages[id]

(* ------------------------------------------------------------------ *)
(* saveDataAtomic                                                      *)
(* ------------------------------------------------------------------ *)
\* the path argument, and the names fmt.Sprintf("%s.tmp.%d", path, rand.Int())
\* can give for two values of rand.Int()
Path == "db.file"
TempFiles == {"db.file.tmp.1", "db.file.tmp.2"}

\* the data argument
Datas == {<<107>>, <<107, 101>>, <<107, 101, 118>>}

\* the files present before the call: path absent or holding "old", and
\* possibly a stale file under the first temporary name
InitialFiles ==
    {[n \in {} |-> <<>>],
     [n \in {Path} |-> <<111, 108, 100>>],
     [n \in {"db.file.tmp.1"} |-> <<120>>],
     [n \in {Path, "db.file.tmp.1"} |-> IF n = Path THEN <<111, 108, 100>> ELSE <<120>>]}

\* fp.Write(bytes) on the file name, replacing what it held (the file is new)
osWriteToPath(f, name, bytes) ==
    [n \in DOMAIN f \cup {Path} |-> IF n = Path THEN bytes ELSE f[n]]

osWrite(f, name, bytes) ==
    [n \in DOMAIN f \cup {name} |-> IF n = name THEN bytes ELSE f[n]]

\* os.Remove(name)
osRemove(f, name) == [n \in DOMAIN f \ {name} |-> f[n]]

\* os.Rename(from, to): to now holds what from held, from is gone
osRename(f, from, to) ==
    [n \in (DOMAIN f \ {from}) \cup {to} |-> IF n = to THEN f[from] ELSE f[n]]

InitFile ==
    /\ pc = "run"
    /\ node = make(2 * BTREE_PAGE_SIZE)
    /\ nset = 0
    /\ hist = NoHist
    /\ tree = EmptyTree
    /\ last = NoOp
    /\ fs \in InitialFiles
    /\ fpc = "idle"
    /\ fcall = NoFile

nodeVars == <<pc, node, nset, hist, tree, last>>

\* saveDataAtomic(Path, data) is entered and names its temporary file
SaveCall(data, tempFile) ==
    /\ fpc = "idle"
    /\ fcall' = [NoFile EXCEPT !.data = data, !.tempFile = tempFile, !.before = fs]
    /\ fpc' = "open"
    /\ UNCHANGED <<fs, nodeVars>>

\* os.OpenFile(tempFile, O_WRONLY|O_CREATE|O_EXCL, 0064): fails when the name
\* exists, and may fail otherwise; on failure the call returns the error
OpenFile(ok) ==
    /\ fpc = "open"
    /\ IF ok /\ fcall.tempFile \notin DOMAIN fs
       THEN /\ fs' = osWrite(fs, fcall.tempFile, <<>>)
            /\ fcall' = [fcall EXCEPT !.created = TRUE, !.opened = "ok"]
            /\ fpc' = "write"
       ELSE /\ fcall' = [fcall EXCEPT !.opened = "failed", !.err = TRUE]
            /\ fpc' = "returned"
            /\ UNCHANGED fs
    /\ UNCHANGED nodeVars

\* fp.Write(data): all of data is written, or an error is returned with only
\* the first n bytes written
Write(ok, n) ==
    /\ fpc = "write"
    /\ n <= Len(fcall.data)
    /\ IF ok
       THEN /\ n = Len(fcall.data)
            /\ fs' = osWrite(fs, fcall.tempFile, fcall.data)
            /\ fcall' = [fcall EXCEPT !.wrote = "ok"]
            /\ fpc' = "rename"
       ELSE /\ fs' = osWrite(fs, fcall.tempFile, SubSeq(fcall.data, 1, n))
            /\ fcall' = [fcall EXCEPT !.wrote = "failed"]
            /\ fpc' = "remove"
    /\ UNCHANGED nodeVars

\* os.Remove(tempFile) after a failed write, its own error ignored; the write's
\* error is returned
Remove(ok) ==
    /\ fpc = "remove"
    /\ fs' = IF ok THEN osRemove(fs, fcall.tempFile) ELSE fs
    /\ fcall' = [fcall EXCEPT !.removed = IF ok THEN "ok" ELSE "failed", !.err = TRUE]
    /\ fpc' = "returned"
    /\ UNCHANGED nodeVars

\* return os.Rename(tempFile, path)
Rename(ok) ==
    /\ fpc = "rename"
    /\ fs' = IF ok THEN osRename(fs, fcall.tempFile, Path) ELSE fs
    /\ fcall' = [fcall EXCEPT !.renamed = IF ok THEN "ok" ELSE "failed", !.err = ~ok]
    /\ fpc' = "returned"
    /\ UNCHANGED nodeVars

NextFile ==
    \/ \E d \in Datas, t \in TempFiles : SaveCall(d, t)
    \/ \E ok \in BOOLEAN : OpenFile(ok)
    \/ \E ok \in BOOLEAN, n \in 0..3 : Write(ok, n)
    \/ \E ok \in BOOLEAN : Remove(ok)
    \/ \E ok \in BOOLEAN : Rename(ok)

SpecFile == InitFile /\ [][NextFile]_vars

(* ------------------------------------------------------------------ *)
(* C10 : saveDataAtomic, under SpecFile                                *)
(* ------------------------------------------------------------------ *)
\* path holds what it held when the call was made (or is still absent)
PathUnchanged ==
    IF Path \in DOMAIN fcall.before
    THEN Path \in DOMAIN fs /\ fs[Path] = fcall.before[Path]
    ELSE Path \notin DOMAIN fs

PathHoldsData == Path \in DOMAIN fs /\ fs[Path] = fcall.data

\* a temporary file this call created is still there
TempRemains == fcall.created /\ fcall.tempFile \in DOMAIN fs

\* path never holds a partial write of data
NeverPartial == fpc # "idle" => (PathUnchanged \/ PathHoldsData)

\* C10 as stated: when creating the temporary file or the write fails, an error
\* is returned, path is unchanged and no temporary file of this call remains;
\* when the write succeeds, path holds exactly data; path never holds a partial
\* write.
C10_AsStated ==
    /\ (fpc = "returned" /\ (fcall.opened = "failed" \/ fcall.wrote = "failed")) =>
          fcall.err /\ PathUnchanged /\ ~TempRemains
    /\ (fpc = "returned" /\ fcall.wrote = "ok") => PathHoldsData
    /\ NeverPartial

\* C10 amended: when creating the temporary file fails, an error is returned and
\* no file is changed; when the write fails, the error is returned, path is
\* unchanged, and the temporary file is gone if os.Remove succeeded (it remains
\* if os.Remove failed, which the code ignores); when the write succeeds the
\* temporary file is renamed over path: if os.Rename succeeds nil is returned,
\* path holds exactly data and the temporary file is gone, and if os.Rename
\* fails its error is returned, path is unchanged and the temporary file
\* remains holding data; path never holds a partial write.
C10_SaveDataAtomic ==
    /\ (fpc = "returned" /\ fcall.opened = "failed") =>
          fcall.err /\ fs = fcall.before
    /\ (fpc = "returned" /\ fcall.wrote = "failed") =>
          /\ fcall.err /\ PathUnchanged
          /\ (fcall.removed = "ok" => ~TempRemains)
          /\ (fcall.removed = "failed" => TempRemains)
    /\ (fpc = "returned" /\ fcall.renamed = "ok") =>
          ~fcall.err /\ PathHoldsData /\ ~TempRemains
    /\ (fpc = "returned" /\ fcall.renamed = "failed") =>
          /\ fcall.err /\ PathUnchanged /\ TempRemains
          /\ fs[fcall.tempFile] = fcall.data
    /\ NeverPartial

\* C10's case: path held a file, the write failed after a part of data had
\* reached the temporary file, os.Remove succeeded and the call has returned
C10_Witness ==
    /\ fpc = "returned"
    /\ Path \in DOMAIN fcall.before
    /\ fcall.wrote = "failed"
    /\ fcall.removed = "ok"
    /\ Len(fcall.data) >= 2

====
